---- MODULE Spec2Model ----
(***************************************************************************)
(* Model of src/src/huha.js: the HuhaTask class (one tracked task), the    *)
(* Huha class (the registry of tasks and the DOM event dispatcher), the    *)
(* module-level DEFAULTS object they share, and the two analytics clients  *)
(* (ga, Intercom) the tasks report to.                                     *)
(*                                                                         *)
(* JavaScript values are modelled as follows.  A tracking flag is one of   *)
(* the strings "true", "false", "undefined" (a property never assigned, or *)
(* assigned undefined, reads as undefined and is falsy).  The end          *)
(* timestamp is <<>> for null and <<t>> for the number t.  An options or   *)
(* dataset object is a function whose DOMAIN is the set of its own keys.   *)
(***************************************************************************)
EXTENDS Integers, Sequences, FiniteSets

(* ---- bounds of the model ---- *)
MaxTasks == 2
MaxCount == 2

(* ---- program constants ---- *)
IN_PROGRESS == "In progress"
COMPLETED == "Completed"
ABANDONED == "Abandoned"

Keys == {"trackOnGoogleAnalytics", "trackOnIntercom"}

(* the value of the DEFAULTS literal when the module is loaded *)
DEFAULTS_LITERAL == [trackOnGoogleAnalytics |-> "true", trackOnIntercom |-> "false"]

(* the DOM events the registry listens to *)
events == {"click", "focus", "change"}

(* ---- inputs ---- *)
Names == {"a", "b"}
(* the values a read of the clock may give, and the values the steps of the
   two specifications read: their clock stands still *)
Times == {0, 1}
Clock == {0}
Undefined == "undefined"
Null == <<>>
Flags == {"true", "false", Undefined}

(* the option objects passed to configure: any subset of the two keys, each
   key a Boolean *)
OptionObjects == UNION {[K -> {"true", "false"}] : K \in SUBSET Keys}

(* the datasets of the elements of the page: elements that declare a task of one
   of the names, an element that declares no task, an element that declares a
   task and nothing else *)
EventTypes == {"start", "complete", "abandon", "interaction", "error", "other"}
Datasets(names) ==
  [huhaTask : names, huhaTrigger : {"click"}, huhaEvent : EventTypes]
    \cup {[huhaTrigger |-> "click", huhaEvent |-> "start"],
          [huhaTask |-> "a"]}

(* the events fired on the page, each a pair of the captured event and the
   dataset of its target: a click on every element, and a focus and a change on
   an element that declares trigger click *)
Fired(names) ==
  ({"click"} \X Datasets(names))
    \cup ({"focus", "change"}
            \X {[huhaTask |-> "a", huhaTrigger |-> "click", huhaEvent |-> "start"]})

(* the one registry the module constructs and exports as huha *)
Registries == {1}

VARIABLES
  DEFAULTS,                \* the shared module-level DEFAULTS object
  tasks,                   \* tasks[r]: this.tasks of registry r
  trackOnGoogleAnalytics,  \* trackOnGoogleAnalytics[r]: the registry's own flag
  trackOnIntercom,         \* trackOnIntercom[r]
  gaDefined,               \* typeof ga !== 'undefined'
  IntercomDefined,         \* typeof Intercom !== 'undefined'
  sent,                    \* the calls made to ga and Intercom, in order
  configured,              \* history: configured[r], whether configure was called
  lastConfigured           \* history: per registry and key, the value the most
                           \* recent configure call supplied, or "none"

vars == <<DEFAULTS, tasks, trackOnGoogleAnalytics, trackOnIntercom,
          gaDefined, IntercomDefined, sent, configured, lastConfigured>>

(* ---- JavaScript helpers ---- *)

(* Object.assign(target, source): every own key of source is written to target *)
ObjectAssign(target, source) ==
  [k \in (DOMAIN target) \cup (DOMAIN source) |->
     IF k \in DOMAIN source THEN source[k] ELSE target[k]]

(* reading a property of an object: undefined when the key is absent *)
Get(obj, k) == IF k \in DOMAIN obj THEN obj[k] ELSE Undefined

(* truthiness of a flag *)
Truthy(v) == v = "true"

(* ---- HuhaTask ---- *)

(* constructor(name, options) merging with Object.assign(options, DEFAULTS):
   a key of DEFAULTS overrides the option *)
HuhaTaskDefaultsWin(name, options, now) ==
  LET mergedOptions == ObjectAssign(options, DEFAULTS) IN
  [defaults |-> DEFAULTS,
   task |-> [name |-> name,
             status |-> IN_PROGRESS,
             effort |-> 0,
             errors |-> 0,
             start |-> now,
             end |-> Null,
             trackOnGoogleAnalytics |-> mergedOptions.trackOnGoogleAnalytics,
             trackOnIntercom |-> mergedOptions.trackOnIntercom]]

(* constructor(name, options), reading the clock as now: the new task and the
   DEFAULTS object as Object.assign leaves it *)
HuhaTask(name, options, now) ==
  LET mergedOptions == ObjectAssign(DEFAULTS, options) IN
  [defaults |-> mergedOptions,
   task |-> [name |-> name,
             status |-> IN_PROGRESS,
             effort |-> 0,
             errors |-> 0,
             start |-> now,
             end |-> Null,
             trackOnGoogleAnalytics |-> mergedOptions.trackOnGoogleAnalytics,
             trackOnIntercom |-> mergedOptions.trackOnIntercom]]

(* addError() as a copy of addInteraction() whose field was not renamed *)
addErrorCountsEffort(t) == [t EXCEPT !.effort = @ + 1]

(* addInteraction() *)
addInteraction(t) == [t EXCEPT !.effort = @ + 1]

(* addError() *)
addError(t) == [t EXCEPT !.errors = @ + 1]

(* get time() *)
time(t) ==
  IF t.end # Null /\ t.end[1] # 0 THEN t.end[1] - t.start ELSE 0

(* sendToGoogleAnalytics() without the test of typeof ga, ga taking the calls
   whenever they are made *)
sendToGoogleAnalyticsUnguarded(t, id) ==
  << [fn |-> "ga", hitType |-> "timing", category |-> t.name,
      action |-> t.status, value |-> time(t), label |-> "Time on task",
      task |-> id],
     [fn |-> "ga", hitType |-> "event", category |-> t.name,
      action |-> t.status, value |-> t.errors, label |-> "Error",
      task |-> id],
     [fn |-> "ga", hitType |-> "event", category |-> t.name,
      action |-> t.status, value |-> t.effort, label |-> "Effort",
      task |-> id] >>

(* sendToGoogleAnalytics(): the calls made to ga; id (registry, index in the
   history) tags each call with the task that made it *)
sendToGoogleAnalytics(t, id) ==
  IF gaDefined
  THEN << [fn |-> "ga", hitType |-> "timing", category |-> t.name,
           action |-> t.status, value |-> time(t), label |-> "Time on task",
           task |-> id],
          [fn |-> "ga", hitType |-> "event", category |-> t.name,
           action |-> t.status, value |-> t.errors, label |-> "Error",
           task |-> id],
          [fn |-> "ga", hitType |-> "event", category |-> t.name,
           action |-> t.status, value |-> t.effort, label |-> "Effort",
           task |-> id] >>
  ELSE << >>

(* sendToIntercom(): the call made to Intercom *)
sendToIntercom(t, id) ==
  IF IntercomDefined
  THEN << [fn |-> "Intercom", hitType |-> "trackEvent", category |-> t.name,
           errors |-> t.errors, effort |-> t.effort, time |-> time(t),
           status |-> t.status, task |-> id] >>
  ELSE << >>

(* track() without the tests of the two flags *)
trackOnBoth(t, id) == sendToGoogleAnalytics(t, id) \o sendToIntercom(t, id)

(* track(): the calls made, in order *)
track(t, id) ==
  (IF Truthy(t.trackOnGoogleAnalytics) THEN sendToGoogleAnalytics(t, id) ELSE << >>)
    \o (IF Truthy(t.trackOnIntercom) THEN sendToIntercom(t, id) ELSE << >>)

(* finish(status) without the test of this.status *)
finishUnguarded(t, status, now, id) ==
  LET done == [t EXCEPT !.end = <<now>>, !.status = status]
  IN [task |-> done, calls |-> track(done, id)]

(* finish(status) testing this.status !== status instead *)
finishIfStatusDiffers(t, status, now, id) ==
  IF t.status # status
  THEN LET done == [t EXCEPT !.end = <<now>>, !.status = status]
       IN [task |-> done, calls |-> track(done, id)]
  ELSE [task |-> t, calls |-> << >>]

(* finish(status), reading the clock as now: the task afterwards and the calls
   made *)
finish(t, status, now, id) ==
  IF t.status = IN_PROGRESS
  THEN LET done == [t EXCEPT !.end = <<now>>, !.status = status]
       IN [task |-> done, calls |-> track(done, id)]
  ELSE [task |-> t, calls |-> << >>]

complete(t, now, id) == finish(t, COMPLETED, now, id)

abandon(t, now, id) == finish(t, ABANDONED, now, id)

(* ---- Huha ---- *)

(* getTask(name) testing task.status !== IN_PROGRESS *)
getTaskNotInProgress(r, name) ==
  LET found == {i \in 1..Len(tasks[r]) :
                  tasks[r][i].name = name /\ tasks[r][i].status # IN_PROGRESS}
  IN IF found = {} THEN 0
     ELSE CHOOSE i \in found : \A j \in found : i <= j

(* getTask(name) without the test of task.status *)
getTaskByName(r, name) ==
  LET found == {i \in 1..Len(tasks[r]) : tasks[r][i].name = name}
  IN IF found = {} THEN 0
     ELSE CHOOSE i \in found : \A j \in found : i <= j

(* getTask(name): the index in this.tasks of the first in-progress task of that
   name, 0 for undefined *)
getTask(r, name) ==
  LET found == {i \in 1..Len(tasks[r]) :
                  tasks[r][i].name = name /\ tasks[r][i].status = IN_PROGRESS}
  IN IF found = {} THEN 0
     ELSE CHOOSE i \in found : \A j \in found : i <= j

(* createTask(name) without the call of existingTask.abandon() *)
createTaskWithoutAbandon(r, name, t1, t2) ==
  LET huhaTask == HuhaTask(name,
                           [trackOnGoogleAnalytics |-> trackOnGoogleAnalytics[r],
                            trackOnIntercom |-> trackOnIntercom[r]],
                           t2)
  IN [tasks |-> Append(tasks[r], huhaTask.task),
      DEFAULTS |-> huhaTask.defaults,
      calls |-> << >>]

(* abandonInProgressTasks() with find in the place of filter: only the first
   task in progress is abandoned *)
abandonFirstInProgress(r, reads) ==
  LET n == Len(tasks[r])
      pendingTasks == {i \in 1..n : tasks[r][i].status = IN_PROGRESS}
      first == CHOOSE i \in pendingTasks : \A j \in pendingTasks : i <= j
      abandoned == abandon(tasks[r][first], reads[first], <<r, first>>)
  IN IF pendingTasks = {}
     THEN [tasks |-> tasks[r], calls |-> << >>]
     ELSE [tasks |-> [tasks[r] EXCEPT ![first] = abandoned.task],
           calls |-> abandoned.calls]

(* configure(options): DEFAULTS and the registry's flags afterwards *)
configure(r, options) ==
  LET mergedOptions == ObjectAssign(DEFAULTS, options) IN
  [DEFAULTS |-> mergedOptions,
   trackOnGoogleAnalytics |-> mergedOptions.trackOnGoogleAnalytics,
   trackOnIntercom |-> mergedOptions.trackOnIntercom]

(* createTask(name); the clock reads t1 in abandon() and t2 in the constructor:
   this.tasks and DEFAULTS afterwards, and the calls made *)
createTask(r, name, t1, t2) ==
  LET existingTask == getTask(r, name)
      abandoned == abandon(tasks[r][existingTask], t1, <<r, existingTask>>)
      history == IF existingTask # 0
                 THEN [tasks[r] EXCEPT ![existingTask] = abandoned.task]
                 ELSE tasks[r]
      calls == IF existingTask # 0 THEN abandoned.calls ELSE << >>
      huhaTask == HuhaTask(name,
                           [trackOnGoogleAnalytics |-> trackOnGoogleAnalytics[r],
                            trackOnIntercom |-> trackOnIntercom[r]],
                           t2)
  IN [tasks |-> Append(history, huhaTask.task),
      DEFAULTS |-> huhaTask.defaults,
      calls |-> calls]

(* abandonInProgressTasks() assigning the filtered list to this.tasks: the
   history keeps only the tasks it abandoned *)
abandonAndKeepPending(r, reads) ==
  LET n == Len(tasks[r])
      Pending(i) == tasks[r][i].status = IN_PROGRESS
      abandoned(i) == abandon(tasks[r][i], reads[i], <<r, i>>)
      RECURSIVE from(_)
      from(i) ==
        IF i > n THEN [tasks |-> << >>, calls |-> << >>]
        ELSE LET rest == from(i + 1)
             IN IF Pending(i)
                THEN [tasks |-> <<abandoned(i).task>> \o rest.tasks,
                      calls |-> abandoned(i).calls \o rest.calls]
                ELSE rest
  IN from(1)

(* abandonInProgressTasks(); the clock reads reads[i] when task i is abandoned:
   this.tasks afterwards and the calls made, in the order of this.tasks *)
abandonInProgressTasks(r, reads) ==
  LET n == Len(tasks[r])
      pendingTasks == {i \in 1..n : tasks[r][i].status = IN_PROGRESS}
      abandoned(i) == abandon(tasks[r][i], reads[i], <<r, i>>)
      RECURSIVE callsFrom(_)
      callsFrom(i) ==
        IF i > n THEN << >>
        ELSE (IF i \in pendingTasks THEN abandoned(i).calls ELSE << >>)
               \o callsFrom(i + 1)
  IN [tasks |-> [i \in 1..n |-> IF i \in pendingTasks
                                THEN abandoned(i).task
                                ELSE tasks[r][i]],
      calls |-> callsFrom(1)]

(* the event kinds of registerEvent that call a method of the looked-up task *)
TaskEventTypes == {"complete", "abandon", "interaction", "error"}

(* registerEvent without the comparison of capturedEvent and actionTrigger *)
registerEventAnyTrigger(r, capturedEvent, dataset, t1, t2) ==
  LET unchanged == [tasks |-> tasks[r], DEFAULTS |-> DEFAULTS, calls |-> << >>,
                    uncaught |-> "none"]
      taskName == dataset.huhaTask
      eventType == Get(dataset, "huhaEvent")
      task == getTask(r, taskName)
      id == <<r, task>>
  IN
  IF "huhaTask" \notin DOMAIN dataset THEN unchanged
  ELSE IF eventType = "start"
  THEN LET created == createTask(r, taskName, t1, t2) IN
       [tasks |-> created.tasks, DEFAULTS |-> created.DEFAULTS,
        calls |-> created.calls, uncaught |-> "none"]
  ELSE IF eventType \in TaskEventTypes /\ task = 0
  THEN [unchanged EXCEPT !.uncaught = "TypeError"]
  ELSE CASE eventType = "complete" ->
              LET res == complete(tasks[r][task], t1, id) IN
              [unchanged EXCEPT !.tasks[task] = res.task, !.calls = res.calls]
         [] eventType = "abandon" ->
              LET res == abandon(tasks[r][task], t1, id) IN
              [unchanged EXCEPT !.tasks[task] = res.task, !.calls = res.calls]
         [] eventType = "interaction" ->
              [unchanged EXCEPT !.tasks[task] = addInteraction(@)]
         [] eventType = "error" ->
              [unchanged EXCEPT !.tasks[task] = addError(@)]
         [] OTHER -> unchanged

(* registerEvent whose 'error' branch calls task.addInteraction() *)
registerEventErrorAsInteraction(r, capturedEvent, dataset, t1, t2) ==
  LET unchanged == [tasks |-> tasks[r], DEFAULTS |-> DEFAULTS, calls |-> << >>,
                    uncaught |-> "none"]
      taskName == dataset.huhaTask
      eventType == Get(dataset, "huhaEvent")
      task == getTask(r, taskName)
      id == <<r, task>>
  IN
  IF "huhaTask" \notin DOMAIN dataset THEN unchanged
  ELSE IF capturedEvent # Get(dataset, "huhaTrigger") THEN unchanged
  ELSE IF eventType = "start"
  THEN LET created == createTask(r, taskName, t1, t2) IN
       [tasks |-> created.tasks, DEFAULTS |-> created.DEFAULTS,
        calls |-> created.calls, uncaught |-> "none"]
  ELSE IF eventType \in TaskEventTypes /\ task = 0
  THEN [unchanged EXCEPT !.uncaught = "TypeError"]
  ELSE CASE eventType = "complete" ->
              LET res == complete(tasks[r][task], t1, id) IN
              [unchanged EXCEPT !.tasks[task] = res.task, !.calls = res.calls]
         [] eventType = "abandon" ->
              LET res == abandon(tasks[r][task], t1, id) IN
              [unchanged EXCEPT !.tasks[task] = res.task, !.calls = res.calls]
         [] eventType \in {"interaction", "error"} ->
              [unchanged EXCEPT !.tasks[task] = addInteraction(@)]
         [] OTHER -> unchanged

(* registerEvent(capturedEvent, element), element.dataset being dataset; the
   clock reads t1 in finish() and t2 in the constructor.  this.tasks and
   DEFAULTS afterwards, the calls made, and the exception the call ends with:
   a method call on the undefined that getTask returned throws a TypeError. *)
registerEvent(r, capturedEvent, dataset, t1, t2) ==
  LET unchanged == [tasks |-> tasks[r], DEFAULTS |-> DEFAULTS, calls |-> << >>,
                    uncaught |-> "none"]
  IN
  IF "huhaTask" \in DOMAIN dataset
  THEN LET taskName == dataset.huhaTask
           actionTrigger == Get(dataset, "huhaTrigger")
           eventType == Get(dataset, "huhaEvent")
       IN IF capturedEvent = actionTrigger
          THEN IF eventType = "start"
               THEN LET created == createTask(r, taskName, t1, t2) IN
                    [tasks |-> created.tasks, DEFAULTS |-> created.DEFAULTS,
                     calls |-> created.calls, uncaught |-> "none"]
               ELSE LET task == getTask(r, taskName)
                        id == <<r, task>>
                    IN IF eventType \in TaskEventTypes /\ task = 0
                       THEN [unchanged EXCEPT !.uncaught = "TypeError"]
                       ELSE CASE eventType = "complete" ->
                                   LET res == complete(tasks[r][task], t1, id) IN
                                   [unchanged EXCEPT !.tasks[task] = res.task,
                                                     !.calls = res.calls]
                              [] eventType = "abandon" ->
                                   LET res == abandon(tasks[r][task], t1, id) IN
                                   [unchanged EXCEPT !.tasks[task] = res.task,
                                                     !.calls = res.calls]
                              [] eventType = "interaction" ->
                                   [unchanged EXCEPT !.tasks[task] = addInteraction(@)]
                              [] eventType = "error" ->
                                   [unchanged EXCEPT !.tasks[task] = addError(@)]
                              [] OTHER -> unchanged
          ELSE unchanged
  ELSE unchanged

(* ---- what an event would do, for the guards of the model ---- *)

(* whether registerEvent would call createTask *)
Starts(capturedEvent, dataset) ==
  /\ "huhaTask" \in DOMAIN dataset
  /\ capturedEvent = Get(dataset, "huhaTrigger")
  /\ Get(dataset, "huhaEvent") = "start"

(* whether registerEvent would look up a task and call a method of it *)
Targets(capturedEvent, dataset) ==
  /\ "huhaTask" \in DOMAIN dataset
  /\ capturedEvent = Get(dataset, "huhaTrigger")
  /\ Get(dataset, "huhaEvent") \in TaskEventTypes

(* whether registerEvent would count an interaction or an error *)
Counts(r, capturedEvent, dataset) ==
  /\ Targets(capturedEvent, dataset)
  /\ dataset.huhaEvent \in {"interaction", "error"}
  /\ getTask(r, dataset.huhaTask) # 0

(* the clock values to choose from at the read in finish() and at the read in
   the constructor; a read the call does not make is not chosen *)
Unread(times) == {CHOOSE t \in times : TRUE}

AbandonRead(r, name, times) ==
  IF getTask(r, name) # 0 THEN times ELSE Unread(times)

FirstRead(r, capturedEvent, dataset, times) ==
  IF Starts(capturedEvent, dataset)
  THEN AbandonRead(r, dataset.huhaTask, times)
  ELSE IF /\ Targets(capturedEvent, dataset)
          /\ dataset.huhaEvent \in {"complete", "abandon"}
          /\ getTask(r, dataset.huhaTask) # 0
       THEN times
       ELSE Unread(times)

SecondRead(capturedEvent, dataset, times) ==
  IF Starts(capturedEvent, dataset) THEN times ELSE Unread(times)

Init ==
  /\ DEFAULTS = DEFAULTS_LITERAL
  /\ tasks = [r \in Registries |-> << >>]
  /\ trackOnGoogleAnalytics = [r \in Registries |-> Undefined]
  /\ trackOnIntercom = [r \in Registries |-> Undefined]
  /\ gaDefined \in BOOLEAN
  /\ IntercomDefined \in BOOLEAN
  /\ sent = << >>
  /\ configured = [r \in Registries |-> FALSE]
  /\ lastConfigured = [r \in Registries |-> [k \in Keys |-> "none"]]

(* ---- the operations, as steps of the program ---- *)

(* the number of addInteraction and addError calls the tasks of registry r have
   counted; the model stops counting at MaxCount calls *)
RECURSIVE Counted(_, _)
Counted(r, n) ==
  IF n = 0 THEN 0
  ELSE tasks[r][n].effort + tasks[r][n].errors + Counted(r, n - 1)

MayCount(r) == Counted(r, Len(tasks[r])) < MaxCount

(* huha.configure(options) *)
Configure(r, objects) ==
  \E options \in objects :
    LET res == configure(r, options) IN
    /\ DEFAULTS' = res.DEFAULTS
    /\ trackOnGoogleAnalytics' =
         [trackOnGoogleAnalytics EXCEPT ![r] = res.trackOnGoogleAnalytics]
    /\ trackOnIntercom' = [trackOnIntercom EXCEPT ![r] = res.trackOnIntercom]
    /\ configured' = [configured EXCEPT ![r] = TRUE]
    /\ lastConfigured' = [lastConfigured EXCEPT ![r] = ObjectAssign(@, options)]
    /\ UNCHANGED <<tasks, gaDefined, IntercomDefined, sent>>

(* huha.createTask(name) *)
CreateTask(r, names, times) ==
  \E name \in names, t2 \in times : \E t1 \in AbandonRead(r, name, times) :
    LET res == createTask(r, name, t1, t2) IN
    /\ Len(tasks[r]) < MaxTasks
    /\ tasks' = [tasks EXCEPT ![r] = res.tasks]
    /\ DEFAULTS' = res.DEFAULTS
    /\ sent' = sent \o res.calls
    /\ UNCHANGED <<trackOnGoogleAnalytics, trackOnIntercom, gaDefined,
                   IntercomDefined, configured, lastConfigured>>

(* task.addInteraction() on a task createTask returned *)
AddInteraction(r) ==
  \E i \in 1..Len(tasks[r]) :
    /\ MayCount(r)
    /\ tasks' = [tasks EXCEPT ![r][i] = addInteraction(@)]
    /\ UNCHANGED <<DEFAULTS, trackOnGoogleAnalytics, trackOnIntercom, gaDefined,
                   IntercomDefined, sent, configured, lastConfigured>>

(* task.addError() on a task createTask returned *)
AddError(r) ==
  \E i \in 1..Len(tasks[r]) :
    /\ MayCount(r)
    /\ tasks' = [tasks EXCEPT ![r][i] = addError(@)]
    /\ UNCHANGED <<DEFAULTS, trackOnGoogleAnalytics, trackOnIntercom, gaDefined,
                   IntercomDefined, sent, configured, lastConfigured>>

(* task.complete() on a task createTask returned *)
Complete(r, times) ==
  \E i \in 1..Len(tasks[r]), now \in times :
    LET res == complete(tasks[r][i], now, <<r, i>>) IN
    /\ tasks' = [tasks EXCEPT ![r][i] = res.task]
    /\ sent' = sent \o res.calls
    /\ UNCHANGED <<DEFAULTS, trackOnGoogleAnalytics, trackOnIntercom, gaDefined,
                   IntercomDefined, configured, lastConfigured>>

(* task.abandon() on a task createTask returned *)
Abandon(r, times) ==
  \E i \in 1..Len(tasks[r]), now \in times :
    LET res == abandon(tasks[r][i], now, <<r, i>>) IN
    /\ tasks' = [tasks EXCEPT ![r][i] = res.task]
    /\ sent' = sent \o res.calls
    /\ UNCHANGED <<DEFAULTS, trackOnGoogleAnalytics, trackOnIntercom, gaDefined,
                   IntercomDefined, configured, lastConfigured>>

(* a click, focus or change event reaches the listener of setUpEvents; a
   listener that throws has changed nothing when it throws *)
RegisterEvent(r, fired, times) ==
  \E f \in fired :
    \E t1 \in FirstRead(r, f[1], f[2], times), t2 \in SecondRead(f[1], f[2], times) :
      LET capturedEvent == f[1]
          dataset == f[2]
          res == registerEvent(r, capturedEvent, dataset, t1, t2)
      IN /\ capturedEvent \in events
         /\ Starts(capturedEvent, dataset) => Len(tasks[r]) < MaxTasks
         /\ Counts(r, capturedEvent, dataset) => MayCount(r)
         /\ tasks' = [tasks EXCEPT ![r] = res.tasks]
         /\ DEFAULTS' = res.DEFAULTS
         /\ sent' = sent \o res.calls
         /\ UNCHANGED <<trackOnGoogleAnalytics, trackOnIntercom, gaDefined,
                        IntercomDefined, configured, lastConfigured>>

(* the beforeunload listener of setUpEvents *)
Unload(r, times) ==
  \E reads \in [1..Len(tasks[r]) -> times] :
    LET res == abandonInProgressTasks(r, reads) IN
    /\ tasks' = [tasks EXCEPT ![r] = res.tasks]
    /\ sent' = sent \o res.calls
    /\ UNCHANGED <<DEFAULTS, trackOnGoogleAnalytics, trackOnIntercom, gaDefined,
                   IntercomDefined, configured, lastConfigured>>

(* the page finishes loading the Google Analytics script: ga becomes defined *)
LoadGa ==
  /\ ~gaDefined
  /\ gaDefined' = TRUE
  /\ UNCHANGED <<DEFAULTS, tasks, trackOnGoogleAnalytics, trackOnIntercom,
                 IntercomDefined, sent, configured, lastConfigured>>

(* the page finishes loading the Intercom script: Intercom becomes defined *)
LoadIntercom ==
  /\ ~IntercomDefined
  /\ IntercomDefined' = TRUE
  /\ UNCHANGED <<DEFAULTS, tasks, trackOnGoogleAnalytics, trackOnIntercom,
                 gaDefined, sent, configured, lastConfigured>>

(* ---- the page with both analytics scripts loaded, configured to track on
        both services; the clock stands still ---- *)

BothOn == {[trackOnGoogleAnalytics |-> "true", trackOnIntercom |-> "true"]}

InitLoaded == Init /\ gaDefined /\ IntercomDefined

Next ==
  \/ \E r \in Registries : Configure(r, BothOn)
  \/ \E r \in Registries : CreateTask(r, Names, Clock)
  \/ \E r \in Registries : AddInteraction(r)
  \/ \E r \in Registries : AddError(r)
  \/ \E r \in Registries : Complete(r, Clock)
  \/ \E r \in Registries : Abandon(r, Clock)
  \/ \E r \in Registries : RegisterEvent(r, Fired(Names), Clock)
  \/ \E r \in Registries : Unload(r, Clock)

Spec == InitLoaded /\ [][Next]_vars

(* ---- the page whose analytics scripts may load late or never, configured
        with any of TrackOptions; one task name, and no interaction or error is
        counted ---- *)

TrackOptions ==
  {[trackOnIntercom |-> "true"], [trackOnIntercom |-> "false"],
   [trackOnGoogleAnalytics |-> "false"]}
TrackNames == {"a"}
TrackFired ==
  {f \in Fired(TrackNames) : Get(f[2], "huhaEvent") \notin {"interaction", "error"}}

NextTrack ==
  \/ \E r \in Registries : Configure(r, TrackOptions)
  \/ \E r \in Registries : CreateTask(r, TrackNames, Clock)
  \/ \E r \in Registries : Complete(r, Clock)
  \/ \E r \in Registries : Abandon(r, Clock)
  \/ \E r \in Registries : RegisterEvent(r, TrackFired, Clock)
  \/ \E r \in Registries : Unload(r, Clock)
  \/ LoadGa
  \/ LoadIntercom

SpecTrack == Init /\ [][NextTrack]_vars

(* ---- the page on which the clock moves, forwards or backwards, between the
        reads: both analytics scripts loaded, one task name ---- *)

NextClock ==
  \/ \E r \in Registries : Configure(r, BothOn)
  \/ \E r \in Registries : CreateTask(r, TrackNames, Times)
  \/ \E r \in Registries : AddInteraction(r)
  \/ \E r \in Registries : AddError(r)
  \/ \E r \in Registries : Complete(r, Times)
  \/ \E r \in Registries : Abandon(r, Times)
  \/ \E r \in Registries : RegisterEvent(r, Fired(TrackNames), Times)
  \/ \E r \in Registries : Unload(r, Times)

SpecClock == InitLoaded /\ [][NextClock]_vars

(* ---- the page driven by its DOM alone: the script configures the registry,
        every task is started, counted and finished by events, and the page is
        left; both analytics scripts loaded ---- *)

NextDom ==
  \/ \E r \in Registries : Configure(r, BothOn)
  \/ \E r \in Registries : RegisterEvent(r, Fired(Names), Clock)
  \/ \E r \in Registries : Unload(r, Clock)

SpecDom == InitLoaded /\ [][NextDom]_vars

(* ---- two registries on one page: huha, and a second one constructed from
        the exported class Huha; both share the module's DEFAULTS; the page
        loads neither analytics script; one task name ---- *)

Instances == {1, 2}

InitTwo ==
  /\ DEFAULTS = DEFAULTS_LITERAL
  /\ tasks = [r \in Instances |-> << >>]
  /\ trackOnGoogleAnalytics = [r \in Instances |-> Undefined]
  /\ trackOnIntercom = [r \in Instances |-> Undefined]
  /\ gaDefined = FALSE
  /\ IntercomDefined = FALSE
  /\ sent = << >>
  /\ configured = [r \in Instances |-> FALSE]
  /\ lastConfigured = [r \in Instances |-> [k \in Keys |-> "none"]]

(* the options of the configure calls on the two registries *)
TwoOptions == {[trackOnGoogleAnalytics |-> "false"], [trackOnIntercom |-> "true"]}

(* the number of tasks the registries have created between them; the model
   stops creating at MaxTasks *)
RECURSIVE Created(_)
Created(rs) ==
  IF rs = {} THEN 0
  ELSE LET r == CHOOSE x \in rs : TRUE IN Len(tasks[r]) + Created(rs \ {r})

NextTwo ==
  \/ \E r \in Instances : Configure(r, TwoOptions)
  \/ \E r \in Instances : Created(Instances) < MaxTasks /\ CreateTask(r, TrackNames, Clock)
  \/ \E r \in Instances : Complete(r, Clock)
  \/ \E r \in Instances : Unload(r, Clock)

SpecTwo == InitTwo /\ [][NextTwo]_vars

(* ======================= the properties checked ======================= *)

(* the tasks in the history of registry r *)
Indices(r) == 1..Len(tasks[r])

(* the calls in a sequence of calls that task id made *)
CallsOf(calls, id) ==
  LET Mine(c) == c.task = id IN SelectSeq(calls, Mine)

(* the kinds of a sequence of calls: the function called and its hit type *)
Kinds(calls) == [k \in 1..Len(calls) |-> <<calls[k].fn, calls[k].hitType>>]

(* the kinds of the calls one finished task makes to a sink that is enabled and
   whose client is defined *)
GaKinds == << <<"ga", "timing">>, <<"ga", "event">>, <<"ga", "event">> >>
IntercomKinds == << <<"Intercom", "trackEvent">> >>

(* the calls a task may have made to a sink: those of kinds once, if the sink
   is enabled, or none *)
OnceOrNone(enabled, kinds) == IF enabled THEN {<< >>, kinds} ELSE {<< >>}

(* the status a call reports *)
StatusIn(c) == IF c.fn = "ga" THEN c.action ELSE c.status

(* what one operation on registry r, called in the current state, does: the
   history it leaves and the calls it makes.  Every operation of the program is
   taken with every input and every value of the clock: configure, createTask,
   the four methods of every task of the history, registerEvent for every event
   of the page (one that throws leaves the history as it is), and the unload
   handler. *)
Outcomes(r) ==
  {[tasks |-> tasks[r], calls |-> << >>]}
    \cup {LET res == createTask(r, name, t1, t2)
          IN [tasks |-> res.tasks, calls |-> res.calls] :
            name \in Names, t1 \in Times, t2 \in Times}
    \cup {[tasks |-> [tasks[r] EXCEPT ![i] = addInteraction(@)], calls |-> << >>] :
            i \in Indices(r)}
    \cup {[tasks |-> [tasks[r] EXCEPT ![i] = addError(@)], calls |-> << >>] :
            i \in Indices(r)}
    \cup {LET res == complete(tasks[r][i], now, <<r, i>>)
          IN [tasks |-> [tasks[r] EXCEPT ![i] = res.task], calls |-> res.calls] :
            i \in Indices(r), now \in Times}
    \cup {LET res == abandon(tasks[r][i], now, <<r, i>>)
          IN [tasks |-> [tasks[r] EXCEPT ![i] = res.task], calls |-> res.calls] :
            i \in Indices(r), now \in Times}
    \cup {LET res == registerEvent(r, f[1], f[2], t1, t2)
          IN [tasks |-> res.tasks, calls |-> res.calls] :
            f \in Fired(Names), t1 \in Times, t2 \in Times}
    \cup {LET res == abandonInProgressTasks(r, reads)
          IN [tasks |-> res.tasks, calls |-> res.calls] :
            reads \in [Indices(r) -> Times]}

(* C1: in every reachable state the history of a registry holds at most one
   task in progress for any given name. *)
C1_OneInProgressPerName ==
  \A r \in Registries : \A i \in Indices(r), j \in Indices(r) :
    (/\ tasks[r][i].status = IN_PROGRESS
     /\ tasks[r][j].status = IN_PROGRESS
     /\ tasks[r][i].name = tasks[r][j].name) => i = j

(* C1, witness: createTask was called for a name that had a task in progress:
   two tasks of one name, the older abandoned, the newer in progress *)
C1_Witness ==
  \E r \in Registries :
    /\ Len(tasks[r]) = 2
    /\ tasks[r][1].name = tasks[r][2].name
    /\ tasks[r][1].status = ABANDONED
    /\ tasks[r][2].status = IN_PROGRESS

(* C2: once the status of a task has left 'In progress' neither it nor the end
   timestamp changes again, and the end timestamp is null exactly while the
   status is 'In progress': this holds of every task of the history, and every
   operation, whatever the clock reads, leaves a history of which it holds and
   in which every task that was Completed or Abandoned has the status and the
   end timestamp it had. *)
C2_TerminalIsFinal ==
  \A r \in Registries :
    /\ \A i \in Indices(r) :
         (tasks[r][i].end = Null) <=> (tasks[r][i].status = IN_PROGRESS)
    /\ \A o \in Outcomes(r) :
         /\ \A i \in 1..Len(o.tasks) :
              (o.tasks[i].end = Null) <=> (o.tasks[i].status = IN_PROGRESS)
         /\ Len(o.tasks) >= Len(tasks[r])
         /\ \A i \in Indices(r) :
              tasks[r][i].status # IN_PROGRESS =>
                /\ o.tasks[i].status = tasks[r][i].status
                /\ o.tasks[i].end = tasks[r][i].end

(* C2, witness: the history holds a Completed task and an Abandoned task, both
   ended at clock value 0, on which every operation is tried with the clock at
   0 and at 1 *)
C2_Witness ==
  \E r \in Registries : \E i \in Indices(r), j \in Indices(r) :
    /\ tasks[r][i].status = COMPLETED /\ tasks[r][i].end = <<0>>
    /\ tasks[r][j].status = ABANDONED /\ tasks[r][j].end = <<0>>

(* C5: complete() or abandon() on a task that is Completed or Abandoned leaves
   its status, end timestamp and counters as they are and makes no call. *)
C5_FinishedTaskIgnoresFinish ==
  \A r \in Registries : \A i \in Indices(r) : \A now \in Times :
    tasks[r][i].status # IN_PROGRESS =>
      LET t == tasks[r][i]
          c == complete(t, now, <<r, i>>)
          a == abandon(t, now, <<r, i>>)
      IN /\ c.task.status = t.status /\ a.task.status = t.status
         /\ c.task.end = t.end /\ a.task.end = t.end
         /\ c.task.effort = t.effort /\ a.task.effort = t.effort
         /\ c.task.errors = t.errors /\ a.task.errors = t.errors
         /\ c.calls = << >> /\ a.calls = << >>

(* C5, witness: a Completed task and an Abandoned task, both tracked, one with
   an interaction counted *)
C5_Witness ==
  \E r \in Registries : \E i \in Indices(r), j \in Indices(r) :
    /\ tasks[r][i].status = COMPLETED /\ tasks[r][j].status = ABANDONED
    /\ tasks[r][i].effort = 1
    /\ CallsOf(sent, <<r, i>>) # << >> /\ CallsOf(sent, <<r, j>>) # << >>

(* C6: createTask(name) while a task of that name is in progress abandons that
   task (status Abandoned, end set to the clock, its tracking calls made with
   status Abandoned) and appends the new task, in progress, after it; no other
   task changes. *)
C6_CreateAbandonsOld ==
  \A r \in Registries : \A name \in Names : \A t1 \in Times, t2 \in Times :
    getTask(r, name) # 0 =>
      LET old == getTask(r, name)
          n == Len(tasks[r])
          res == createTask(r, name, t1, t2)
          was == tasks[r][old]
          now == res.tasks[old]
      IN /\ Len(res.tasks) = n + 1
         /\ now = [was EXCEPT !.status = ABANDONED, !.end = <<t1>>]
         /\ \A i \in Indices(r) \ {old} : res.tasks[i] = tasks[r][i]
         /\ res.tasks[n + 1].name = name
         /\ res.tasks[n + 1].status = IN_PROGRESS
         /\ res.tasks[n + 1].end = Null
         /\ res.tasks[n + 1].start = t2
         /\ Kinds(res.calls) =
              (IF Truthy(was.trackOnGoogleAnalytics) /\ gaDefined
               THEN GaKinds ELSE << >>)
                \o (IF Truthy(was.trackOnIntercom) /\ IntercomDefined
                    THEN IntercomKinds ELSE << >>)
         /\ \A k \in 1..Len(res.calls) :
              /\ res.calls[k].task = <<r, old>>
              /\ res.calls[k].category = name
              /\ StatusIn(res.calls[k]) = ABANDONED

(* C6, witness: the history holds two tasks of one name, the older abandoned
   and tracked on both services, the newer in progress *)
C6_Witness ==
  \E r \in Registries :
    /\ Len(tasks[r]) = 2
    /\ tasks[r][1].name = tasks[r][2].name
    /\ tasks[r][1].status = ABANDONED /\ tasks[r][1].end # Null
    /\ tasks[r][2].status = IN_PROGRESS
    /\ Kinds(CallsOf(sent, <<r, 1>>)) = GaKinds \o IntercomKinds
    /\ \A k \in 1..Len(sent) : StatusIn(sent[k]) = ABANDONED

(* C7: a registerEvent of kind complete, abandon, interaction or error for a
   name that has no task in progress throws no exception and changes no task,
   no history entry and no tracking output. *)
C7_MissingTaskIsSilent ==
  \A r \in Registries : \A f \in Fired(Names) : \A t1 \in Times, t2 \in Times :
    (Targets(f[1], f[2]) /\ getTask(r, f[2].huhaTask) = 0) =>
      LET res == registerEvent(r, f[1], f[2], t1, t2)
      IN /\ res.uncaught = "none"
         /\ res.tasks = tasks[r]
         /\ res.calls = << >>

(* C9: abandonInProgressTasks() turns every task in progress into an Abandoned
   task whose end is the clock value read for it, leaves every other task and
   the length and order of the history as they are, and leaves no task in
   progress. *)
C9_UnloadAbandonsAll ==
  \A r \in Registries : \A reads \in [Indices(r) -> Times] :
    LET res == abandonInProgressTasks(r, reads)
    IN /\ Len(res.tasks) = Len(tasks[r])
       /\ \A i \in Indices(r) :
            /\ res.tasks[i].status # IN_PROGRESS
            /\ res.tasks[i] =
                 IF tasks[r][i].status = IN_PROGRESS
                 THEN [tasks[r][i] EXCEPT !.status = ABANDONED, !.end = <<reads[i]>>]
                 ELSE tasks[r][i]

(* C9, witness: the unload handler ran on a history of a Completed task and a
   task in progress: an Abandoned task with its end set next to the Completed
   one, none in progress, the Abandoned one tracked last *)
C9_Witness ==
  \E r \in Registries :
    /\ Len(tasks[r]) = 2
    /\ tasks[r][1].name # tasks[r][2].name
    /\ tasks[r][1].status = COMPLETED /\ tasks[r][1].effort = 1
    /\ tasks[r][2].status = ABANDONED /\ tasks[r][2].end # Null
    /\ sent # << >> /\ sent[Len(sent)].task = <<r, 2>>

(* C10: addInteraction() adds exactly 1 to the interaction count and addError()
   exactly 1 to the error count, each leaving every other field of the task as
   it is; in every step each counter of a task stays or grows by 1, a step that
   counts changes nothing else of the task, and a new task starts with both
   counters 0. *)
C10_CountersGrowByOne ==
  [][\A r \in Registries :
       /\ \A i \in Indices(r) :
            LET t == tasks[r][i]
                u == tasks'[r][i]
            IN /\ addInteraction(t) = [t EXCEPT !.effort = t.effort + 1]
               /\ addError(t) = [t EXCEPT !.errors = t.errors + 1]
               /\ u.effort - t.effort \in {0, 1}
               /\ u.errors - t.errors \in {0, 1}
               /\ u.effort # t.effort => u = [t EXCEPT !.effort = t.effort + 1]
               /\ u.errors # t.errors => u = [t EXCEPT !.errors = t.errors + 1]
       /\ \A i \in (Len(tasks[r]) + 1)..Len(tasks'[r]) :
            tasks'[r][i].effort = 0 /\ tasks'[r][i].errors = 0]_vars

(* C10, witness: a task has counted an interaction and an error *)
C10_Witness ==
  \E r \in Registries : \E i \in Indices(r) :
    tasks[r][i].effort = 1 /\ tasks[r][i].errors = 1

(* ---- tracking flags ---- *)

(* the flag the documentation gives a new task for key k: the value of the
   most recent configure call that supplied k, the default if none did *)
Documented(r, k) ==
  IF lastConfigured[r][k] # "none" THEN lastConfigured[r][k] ELSE DEFAULTS_LITERAL[k]

(* C3: a task created by a registry on which configure was never called has
   trackOnGoogleAnalytics true and trackOnIntercom false, so that, both clients
   being defined, finishing it makes the three calls to ga and none to
   Intercom. *)
C3_UnconfiguredTaskHasDefaults ==
  \A r \in Registries : \A i \in Indices(r) :
    ~configured[r] =>
      /\ tasks[r][i].trackOnGoogleAnalytics = "true"
      /\ tasks[r][i].trackOnIntercom = "false"
      /\ (tasks[r][i].status # IN_PROGRESS =>
            Kinds(CallsOf(sent, <<r, i>>)) = GaKinds)

(* C8: after any configure calls a task created next gets, for each key, the
   value of the most recent configure call that supplied the key, and the
   documented default if no call supplied it. *)
C8_LastConfigureWins ==
  \A r \in Registries : \A name \in TrackNames : \A t1 \in Times, t2 \in Times :
    LET res == createTask(r, name, t1, t2)
        new == res.tasks[Len(res.tasks)]
    IN /\ new.trackOnGoogleAnalytics = Documented(r, "trackOnGoogleAnalytics")
       /\ new.trackOnIntercom = Documented(r, "trackOnIntercom")

(* C4 as stated: a task in progress has made no call, and a finished task has
   made exactly the calls of each sink its flags enable: one timing and two
   events to ga, one event to Intercom. *)
C4_OncePerEnabledSink ==
  \A r \in Registries : \A i \in Indices(r) :
    LET t == tasks[r][i] IN
    Kinds(CallsOf(sent, <<r, i>>)) =
      IF t.status = IN_PROGRESS THEN << >>
      ELSE (IF Truthy(t.trackOnGoogleAnalytics) THEN GaKinds ELSE << >>)
             \o (IF Truthy(t.trackOnIntercom) THEN IntercomKinds ELSE << >>)

(* C4, amended: a task in progress has made no call; the operation in which a
   task finishes makes, for that task, exactly the calls of each sink that its
   flags enable and whose client is defined at that moment (one timing and two
   events to ga, one event to Intercom), and none for any other sink; no other
   operation makes a call of the task; so a finished task has made, for each
   sink, those calls once or none. *)
C4_OncePerEnabledDefinedSink ==
  \A r \in Registries :
    /\ \A i \in Indices(r) :
         LET t == tasks[r][i]
             made == Kinds(CallsOf(sent, <<r, i>>))
         IN /\ t.status = IN_PROGRESS => made = << >>
            /\ made \in {toGa \o toIntercom :
                          toGa \in OnceOrNone(Truthy(t.trackOnGoogleAnalytics), GaKinds),
                          toIntercom \in OnceOrNone(Truthy(t.trackOnIntercom), IntercomKinds)}
    /\ \A o \in Outcomes(r) :
         /\ \A k \in 1..Len(o.calls) :
              o.calls[k].task \in {<<r, i>> : i \in 1..Len(o.tasks)}
         /\ \A i \in 1..Len(o.tasks) :
              LET t == o.tasks[i]
                  finishes == /\ i <= Len(tasks[r])
                              /\ tasks[r][i].status = IN_PROGRESS
                              /\ t.status # IN_PROGRESS
              IN Kinds(CallsOf(o.calls, <<r, i>>)) =
                   IF finishes
                   THEN (IF Truthy(t.trackOnGoogleAnalytics) /\ gaDefined
                         THEN GaKinds ELSE << >>)
                          \o (IF Truthy(t.trackOnIntercom) /\ IntercomDefined
                              THEN IntercomKinds ELSE << >>)
                   ELSE << >>

(* C4, witness: a task with both flags set finished while ga was defined and
   Intercom was not, and Intercom was defined afterwards: it made the three
   calls to ga and none to Intercom *)
C4_Witness ==
  \E r \in Registries : \E i \in Indices(r) :
    /\ tasks[r][i].status = COMPLETED
    /\ tasks[r][i].trackOnGoogleAnalytics = "true"
    /\ tasks[r][i].trackOnIntercom = "true"
    /\ IntercomDefined
    /\ Kinds(CallsOf(sent, <<r, i>>)) = GaKinds

(* ---- elapsed time and the content of the tracking calls ---- *)

(* C11: the elapsed time of a task is 0 while the task is 'In progress' and
   end - start once it is Completed or Abandoned, whatever the two timestamps
   are (an end of 0 and an end before the start included). *)
C11_ElapsedIsEndMinusStart ==
  \A r \in Registries : \A i \in Indices(r) :
    LET t == tasks[r][i] IN
    time(t) = IF t.status = IN_PROGRESS THEN 0 ELSE t.end[1] - t.start

(* the elapsed time, the error count and the interaction count a call reports;
   a call to ga reports one of the three, named by its label *)
Reports(c) ==
  IF c.fn = "Intercom"
  THEN [time |-> {c.time}, errors |-> {c.errors}, effort |-> {c.effort}]
  ELSE [time |-> IF c.label = "Time on task" THEN {c.value} ELSE {},
        errors |-> IF c.label = "Error" THEN {c.value} ELSE {},
        effort |-> IF c.label = "Effort" THEN {c.value} ELSE {}]

(* C12: every call an operation makes for a task carries the name of the task,
   its status, which is Completed or Abandoned, an elapsed time of end - start,
   and the error and interaction counts the task has when the operation has
   finished it. *)
C12_RecordCarriesTask ==
  \A r \in Registries : \A o \in Outcomes(r) : \A k \in 1..Len(o.calls) :
    LET c == o.calls[k]
        t == o.tasks[c.task[2]]
    IN /\ c.task[1] = r
       /\ c.category = t.name
       /\ StatusIn(c) = t.status
       /\ t.status \in {COMPLETED, ABANDONED}
       /\ Reports(c).time \subseteq {t.end[1] - t.start}
       /\ Reports(c).errors \subseteq {t.errors}
       /\ Reports(c).effort \subseteq {t.effort}

(* ---- absent analytics clients ---- *)

(* the calls of a sequence of calls made to the function fn *)
CallsTo(calls, fn) ==
  LET ToFn(c) == c.fn = fn IN SelectSeq(calls, ToFn)

(* C13: when an operation finishes a task while the client of a sink its flags
   enable is not defined, the task still becomes Completed or Abandoned with
   its end set, no call is made to that sink, the other sink gets exactly the
   calls its own flag and client give it, and an event that finishes a task
   throws nothing; no operation makes a call for a task that is already
   finished, so the skipped calls are never made later. *)
C13_AbsentClientSkipped ==
  \A r \in Registries :
    /\ \A o \in Outcomes(r) : \A i \in Indices(r) :
         LET t == o.tasks[i]
             made == CallsOf(o.calls, <<r, i>>)
         IN IF tasks[r][i].status # IN_PROGRESS
            THEN made = << >>
            ELSE t.status # IN_PROGRESS =>
                   /\ t.end # Null
                   /\ (Truthy(t.trackOnGoogleAnalytics) /\ ~gaDefined) =>
                        /\ CallsTo(made, "ga") = << >>
                        /\ Kinds(CallsTo(made, "Intercom")) =
                             IF Truthy(t.trackOnIntercom) /\ IntercomDefined
                             THEN IntercomKinds ELSE << >>
                   /\ (Truthy(t.trackOnIntercom) /\ ~IntercomDefined) =>
                        /\ CallsTo(made, "Intercom") = << >>
                        /\ Kinds(CallsTo(made, "ga")) =
                             IF Truthy(t.trackOnGoogleAnalytics) /\ gaDefined
                             THEN GaKinds ELSE << >>
    /\ \A f \in Fired(Names) : \A t1 \in Times, t2 \in Times :
         (/\ Targets(f[1], f[2])
          /\ f[2].huhaEvent \in {"complete", "abandon"}
          /\ getTask(r, f[2].huhaTask) # 0) =>
           registerEvent(r, f[1], f[2], t1, t2).uncaught = "none"

(* C13, witness: a task with both flags set was abandoned while Intercom was
   defined and ga was not, and ga was defined afterwards: the task is ended and
   has made the call to Intercom and none to ga *)
C13_Witness ==
  \E r \in Registries : \E i \in Indices(r) :
    /\ tasks[r][i].status = ABANDONED /\ tasks[r][i].end # Null
    /\ tasks[r][i].trackOnGoogleAnalytics = "true"
    /\ tasks[r][i].trackOnIntercom = "true"
    /\ gaDefined
    /\ Kinds(CallsOf(sent, <<r, i>>)) = IntercomKinds

(* ---- the dispatch of DOM events ---- *)

(* whether registerEvent gets past its two tests: the element declares a task
   and its trigger is the captured event *)
Declared(capturedEvent, dataset) ==
  "huhaTask" \in DOMAIN dataset /\ capturedEvent = Get(dataset, "huhaTrigger")

(* C14: registerEvent creates no task, changes no task and no flag and makes
   no call, and throws nothing, when the element declares no task name or
   declares a trigger other than the captured event; so a focus or change on an
   element that declares trigger click and action start creates no task. *)
C14_UndeclaredOrOtherTriggerIgnored ==
  \A r \in Registries : \A capturedEvent \in events, dataset \in Datasets(Names) :
    \A t1 \in Times, t2 \in Times :
      ~Declared(capturedEvent, dataset) =>
        LET res == registerEvent(r, capturedEvent, dataset, t1, t2)
        IN /\ res.tasks = tasks[r]
           /\ res.DEFAULTS = DEFAULTS
           /\ res.calls = << >>
           /\ res.uncaught = "none"

(* C14, witness: a task "a" is in progress with an interaction and an error
   counted, on a registry configured after the task was created: a start of "a"
   would abandon it and write the flags to DEFAULTS *)
C14_Witness ==
  \E r \in Registries :
    /\ Len(tasks[r]) = 1
    /\ tasks[r][1].name = "a" /\ tasks[r][1].status = IN_PROGRESS
    /\ tasks[r][1].effort = 1 /\ tasks[r][1].errors = 1
    /\ tasks[r][1].trackOnGoogleAnalytics # trackOnGoogleAnalytics[r]
    /\ <<"focus", [huhaTask |-> "a", huhaTrigger |-> "click", huhaEvent |-> "start"]>>
         \in Fired(Names)

(* C15: when the element declares a task and its trigger is the captured
   event, registerEvent does what the operation named by the action does, and
   nothing else: 'start' what createTask(name) does; 'complete', 'abandon',
   'interaction' and 'error' what complete(), abandon(), addInteraction() and
   addError() do to the task in progress of that name, every other task, the
   flags and DEFAULTS staying as they are; any other action changes nothing.
   Every event of the page is taken, with every value of the clock at the
   reads the call makes. *)
C15_EventDoesNamedOperation ==
  \A r \in Registries : \A f \in Fired(Names) :
    \A t1 \in FirstRead(r, f[1], f[2], Times), t2 \in SecondRead(f[1], f[2], Times) :
      Declared(f[1], f[2]) =>
        LET capturedEvent == f[1]
            dataset == f[2]
            res == registerEvent(r, capturedEvent, dataset, t1, t2)
            name == dataset.huhaTask
            kind == dataset.huhaEvent
            task == getTask(r, name)
            id == <<r, task>>
            same == [tasks |-> tasks[r], DEFAULTS |-> DEFAULTS, calls |-> << >>,
                     uncaught |-> "none"]
        IN CASE kind = "start" ->
                  LET created == createTask(r, name, t1, t2)
                  IN res = [tasks |-> created.tasks, DEFAULTS |-> created.DEFAULTS,
                            calls |-> created.calls, uncaught |-> "none"]
             [] kind = "complete" /\ task # 0 ->
                  LET done == complete(tasks[r][task], t1, id)
                  IN res = [same EXCEPT !.tasks[task] = done.task,
                                        !.calls = done.calls]
             [] kind = "abandon" /\ task # 0 ->
                  LET done == abandon(tasks[r][task], t1, id)
                  IN res = [same EXCEPT !.tasks[task] = done.task,
                                        !.calls = done.calls]
             [] kind = "interaction" /\ task # 0 ->
                  res = [same EXCEPT !.tasks[task] = addInteraction(@)]
             [] kind = "error" /\ task # 0 ->
                  res = [same EXCEPT !.tasks[task] = addError(@)]
             [] kind \notin TaskEventTypes \cup {"start"} -> res = same
             [] OTHER -> TRUE

(* C15, witness: events have started a task, counted an interaction and an
   error on it and completed it, and started a second task of another name
   that the unload handler abandoned *)
C15_Witness ==
  \E r \in Registries :
    /\ Len(tasks[r]) = 2
    /\ tasks[r][1].status = COMPLETED
    /\ tasks[r][1].effort = 1 /\ tasks[r][1].errors = 1
    /\ tasks[r][2].status = ABANDONED /\ tasks[r][2].name # tasks[r][1].name
    /\ Len(sent) = 8

(* C19: an event or the unload handler changes no field of a task that is
   Completed or Abandoned; and on a page driven by events and the unload
   handler alone, the error and interaction counts of such a task are the
   counts its tracking calls reported. *)
C19_EventsLeaveFinishedTasks ==
  \A r \in Registries : \A i \in Indices(r) :
    tasks[r][i].status # IN_PROGRESS =>
      /\ \A f \in Fired(Names) :
           \A t1 \in FirstRead(r, f[1], f[2], Times), t2 \in SecondRead(f[1], f[2], Times) :
             registerEvent(r, f[1], f[2], t1, t2).tasks[i] = tasks[r][i]
      /\ \A reads \in [Indices(r) -> Times] :
           abandonInProgressTasks(r, reads).tasks[i] = tasks[r][i]
      /\ \A k \in 1..Len(sent) :
           sent[k].task = <<r, i>> =>
             /\ Reports(sent[k]).errors \subseteq {tasks[r][i].errors}
             /\ Reports(sent[k]).effort \subseteq {tasks[r][i].effort}

(* C19, witness: events completed a task with an interaction counted and
   tracked, started a second task of the same name and counted an error on
   it *)
C19_Witness ==
  \E r \in Registries :
    /\ Len(tasks[r]) = 2
    /\ tasks[r][1].name = tasks[r][2].name
    /\ tasks[r][1].status = COMPLETED
    /\ tasks[r][1].effort = 1 /\ tasks[r][1].errors = 0
    /\ tasks[r][2].status = IN_PROGRESS
    /\ tasks[r][2].effort = 0 /\ tasks[r][2].errors = 1
    /\ CallsOf(sent, <<r, 1>>) # << >>

(* ---- the history and the flags of its tasks ---- *)

(* what never changes of an entry of the history: the task's name, start and
   flags *)
Entry(t) == <<t.name, t.start, t.trackOnGoogleAnalytics, t.trackOnIntercom>>

(* C16: every createTask gives a history one entry longer whose last entry is
   the new task; every operation leaves the entries of the history where they
   were and adds at most one entry at the end, so that the history before the
   operation is a prefix of the history after it and no task, finished or not,
   leaves it. *)
C16_HistoryAppendOnly ==
  \A r \in Registries :
    /\ \A name \in Names : \A t1 \in Times, t2 \in Times :
         LET after == createTask(r, name, t1, t2).tasks
         IN /\ Len(after) = Len(tasks[r]) + 1
            /\ after[Len(after)].name = name
            /\ after[Len(after)].status = IN_PROGRESS
    /\ \A o \in Outcomes(r) :
         /\ Len(o.tasks) \in {Len(tasks[r]), Len(tasks[r]) + 1}
         /\ \A i \in Indices(r) : Entry(o.tasks[i]) = Entry(tasks[r][i])

(* C16, witness: a task was created and abandoned, the registry was configured
   again, and a task was created after that and completed: both are in the
   history, in the order of their creation, told apart by their flags *)
C16_Witness ==
  \E r \in Registries :
    /\ Len(tasks[r]) = 2
    /\ tasks[r][1].status = ABANDONED
    /\ tasks[r][2].status = COMPLETED
    /\ Entry(tasks[r][1]) # Entry(tasks[r][2])

(* the two flags of a task *)
FlagsOf(t) == <<t.trackOnGoogleAnalytics, t.trackOnIntercom>>

(* C17: the flags of a task are those of its registry when createTask made it,
   and no step, a configure or a later createTask included, changes the flags
   of a task of the history; the calls a step makes for a task go to sinks
   that the flags the task was created with enable. *)
C17_FlagsFixedAtCreation ==
  [][\A r \in Registries :
       /\ \A i \in Indices(r) : FlagsOf(tasks'[r][i]) = FlagsOf(tasks[r][i])
       /\ \A i \in (Len(tasks[r]) + 1)..Len(tasks'[r]) :
            FlagsOf(tasks'[r][i]) = <<trackOnGoogleAnalytics[r], trackOnIntercom[r]>>
       /\ \A k \in (Len(sent) + 1)..Len(sent') :
            LET c == sent'[k]
                t == tasks[r][c.task[2]]
            IN c.task[1] = r =>
                 Truthy(IF c.fn = "ga" THEN t.trackOnGoogleAnalytics
                        ELSE t.trackOnIntercom)]_vars

(* C17, witness: a task created while the registry tracked on Intercom was
   completed and made its call to Intercom, and the registry, configured not
   to track on Intercom, created a task that does not *)
C17_Witness ==
  \E r \in Registries :
    /\ Len(tasks[r]) = 2
    /\ tasks[r][1].status = COMPLETED
    /\ tasks[r][1].trackOnIntercom = "true"
    /\ CallsTo(CallsOf(sent, <<r, 1>>), "Intercom") # << >>
    /\ trackOnIntercom[r] = "false"
    /\ tasks[r][2].trackOnIntercom = "false"

(* C18: createTask does not alter the defaults configure uses: whatever
   createTask and configure calls came before, the flags a configure(options)
   call gives the registry are those it would give had no createTask been
   called: for each key the option if options supplies it, else the value of
   the most recent configure call that supplied it, else the documented
   default. *)
C18_CreateTaskKeepsDefaults ==
  \A r \in Registries : \A options \in OptionObjects :
    LET res == configure(r, options)
        expected == ObjectAssign([k \in Keys |-> Documented(r, k)], options)
    IN /\ res.trackOnGoogleAnalytics = expected.trackOnGoogleAnalytics
       /\ res.trackOnIntercom = expected.trackOnIntercom

(* ---- two registries ---- *)

(* the flags the next task of registry r receives, and the flags its tasks
   receive once r has been configured with options *)
NextFlags(r) ==
  LET created == createTask(r, "a", 0, 0).tasks IN FlagsOf(created[Len(created)])

FlagsAfterConfigure(r, options) ==
  LET res == configure(r, options)
  IN <<res.trackOnGoogleAnalytics, res.trackOnIntercom>>

(* C20: a step that is not a call on registry r (it leaves the history, the
   flags and the configure calls of r as they are) does not change the flags
   the tasks r creates receive: neither those of the task r creates next, nor
   those its tasks receive after any configure call on r. *)
C20_RegistriesIndependent ==
  [][\A r \in Instances :
       (/\ tasks'[r] = tasks[r]
        /\ trackOnGoogleAnalytics'[r] = trackOnGoogleAnalytics[r]
        /\ trackOnIntercom'[r] = trackOnIntercom[r]
        /\ configured'[r] = configured[r]
        /\ lastConfigured'[r] = lastConfigured[r]) =>
         /\ NextFlags(r)' = NextFlags(r)
         /\ \A options \in OptionObjects :
              FlagsAfterConfigure(r, options)' = FlagsAfterConfigure(r, options)]_vars

====
